---- MODULE Spec2Model ----
(***************************************************************************)
(* MockRestAPI (src/src/inspect_ai/model/_providers/mockrest.py): an HTTP  *)
(* model provider.  The adapter is constructed once, then the host calls   *)
(* generate (a coroutine that suspends at the HTTP POST) and the two       *)
(* classification predicates should_retry / is_auth_failure.               *)
(*                                                                         *)
(* Python values are tagged records [type, repr] (the Python type and the  *)
(* literal), so that "is None" and truthiness are different tests.  Python *)
(* dicts are functions over string keys; a JSON value of a response body   *)
(* is a record [t, v] of its JSON type and its payload.                    *)
(***************************************************************************)
EXTENDS Integers, Sequences, FiniteSets, TLC

VARIABLES self, calls, verdict

vars == <<self, calls, verdict>>

(* ------------------------------ bounds -------------------------------- *)

\* number of generate coroutines the host may have in flight on one adapter
MaxCalls == 2

\* number of generation parameters a GenerateConfig sets at once
MaxSetParams == 1

Calls == 1 .. MaxCalls

(* --------------------------- Python values ---------------------------- *)

PyNone == [type |-> "NoneType", repr |-> "None"]

PyStr(s) == [type |-> "str", repr |-> s]

PyInt(r) == [type |-> "int", repr |-> r]

PyFloat(r) == [type |-> "float", repr |-> r]

PyList(r) == [type |-> "list", repr |-> r]

\* a dict literal {"type": "function", "function": {"name": n}}
PyDict(r) == [type |-> "dict", repr |-> r]

\* inspect_ai.tool.ToolFunction(name=n): a dataclass instance, not a dict
PyToolFunction(n) == [type |-> "ToolFunction", repr |-> n]

IsNone(v) == v.type = "NoneType"

\* Python truthiness of the values used here ("if x:" / "not x")
Truthy(v) == ~(v.type = "NoneType" \/ v.repr \in {"", "0", "0.0", "[]", "{}"})

\* dict.update / {**a, **b}: keys of b win
DictUpdate(a, b) ==
    [k \in (DOMAIN a) \cup (DOMAIN b) |-> IF k \in DOMAIN b THEN b[k] ELSE a[k]]

\* d | {k: v}
DictSet(d, k, v) == [x \in (DOMAIN d) \cup {k} |-> IF x = k THEN v ELSE d[x]]

EmptyDict == <<>>

(* ------------------------- construction inputs ------------------------ *)

ModelName == "mock-1"

\* os.environ as read by the constructor (os.environ.get(name, None))
Envs ==
    { [MOCKREST_BASE_URL |-> PyNone, MOCKREST_API_KEY |-> PyNone],
      [MOCKREST_BASE_URL |-> PyStr(""), MOCKREST_API_KEY |-> PyStr("env-key")],
      [MOCKREST_BASE_URL |-> PyStr("http://env"), MOCKREST_API_KEY |-> PyNone],
      [MOCKREST_BASE_URL |-> PyStr("http://env"), MOCKREST_API_KEY |-> PyStr("env-key")] }

\* **model_args: extra keyword arguments, a dict keyed by argument name
ModelArgs ==
    { EmptyDict,
      [custom |-> PyStr("x")],
      [temperature |-> PyFloat("1.5"), stop |-> PyList("['X']")],
      [tool_choice |-> PyStr("none"), model |-> PyStr("other"),
       messages |-> PyList("[]")] }

\* the constructor's arguments: the base_url / api_key cases with no extras,
\* and every extras dict with an explicit base_url
CtorArgs ==
    [base_url : {PyNone, PyStr(""), PyStr("http://arg")},
     api_key : {PyNone, PyStr("arg-key")},
     timeout : {PyFloat("60.0")},
     model_args : {EmptyDict}]
    \cup
    [base_url : {PyStr("http://arg")},
     api_key : {PyNone},
     timeout : {PyFloat("60.0")},
     model_args : ModelArgs]

NoAdapter ==
    [state |-> "new", model_name |-> ModelName, base_url |-> PyNone,
     api_key |-> PyNone, timeout |-> PyNone, model_args |-> EmptyDict,
     client |-> "none"]

\* __init__, lines 101-130.  super().__init__ stores model_name, base_url and
\* api_key; base_url / api_key fall back to the environment when falsy; a
\* base_url that is still falsy raises ValueError before timeout, model_args
\* and the HTTP client are set.
ResolvedBaseUrl(a, e) ==
    IF ~Truthy(a.base_url) THEN e.MOCKREST_BASE_URL ELSE a.base_url

ResolvedApiKey(a, e) ==
    IF ~Truthy(a.api_key) THEN e.MOCKREST_API_KEY ELSE a.api_key

\* the missing base URL is left for the first request to trip over
ConstructNeverRaises(a, e) == FALSE

ConstructRaises(a, e) == ~Truthy(ResolvedBaseUrl(a, e))

Construct(a, e) ==
    /\ self.state = "new"
    /\ self' =
         IF ConstructRaises(a, e)
         THEN [NoAdapter EXCEPT !.state = "ValueError",
                                !.base_url = ResolvedBaseUrl(a, e),
                                !.api_key = a.api_key]
         ELSE [state |-> "ready", model_name |-> ModelName,
               base_url |-> ResolvedBaseUrl(a, e),
               api_key |-> ResolvedApiKey(a, e),
               timeout |-> a.timeout, model_args |-> a.model_args,
               client |-> "open"]
    /\ UNCHANGED <<calls, verdict>>

(* ----------------------------- generate inputs ------------------------ *)

\* ChatMessage: role, content, and (when the message class has one) a text
\* accessor
Inputs ==
    { << [role |-> "user", has_text |-> TRUE, text |-> "hello", content |-> "hello"] >>,
      << [role |-> "system", has_text |-> FALSE, text |-> "", content |-> "be brief"],
         [role |-> "user", has_text |-> TRUE, text |-> "hi", content |-> "hi"] >> }

\* ToolInfo: name, description, parameters
ToolLists ==
    { << >>,
      << [name |-> "get_weather", description |-> "weather", parameters |-> "{city}"] >> }

\* ToolChoice as the host may pass it: None, a string policy, a dict selector
\* or a ToolFunction selector object
ToolChoices ==
    { PyNone, PyStr("auto"), PyStr("none"),
      PyDict("{'type': 'function', 'function': {'name': 'get_weather'}}"),
      PyToolFunction("get_weather") }

\* GenerateConfig field -> request key, in the order _build_request reads them
ParamFields ==
    << "temperature", "max_tokens", "top_p", "top_k", "stop_seqs", "seed" >>

ParamKey(field) == IF field = "stop_seqs" THEN "stop" ELSE field

ParamKeys == { ParamKey(ParamFields[i]) : i \in DOMAIN ParamFields }

\* values a set parameter takes: one falsy, one truthy
ParamValues(field) ==
    CASE field = "temperature" -> {PyFloat("0.0"), PyFloat("0.7")}
      [] field = "max_tokens"  -> {PyInt("0"), PyInt("1024")}
      [] field = "top_p"       -> {PyFloat("0.0"), PyFloat("0.9")}
      [] field = "top_k"       -> {PyInt("0"), PyInt("40")}
      [] field = "stop_seqs"   -> {PyList("[]"), PyList("['END']")}
      [] field = "seed"        -> {PyInt("0"), PyInt("42")}

FieldSet == { ParamFields[i] : i \in DOMAIN ParamFields }

AllParamValues == UNION { ParamValues(f) : f \in FieldSet }

\* GenerateConfig objects with at most MaxSetParams parameters set
Configs ==
    UNION { { [f \in FieldSet |-> IF f \in S THEN g[f] ELSE PyNone] :
                g \in { h \in [S -> AllParamValues] :
                          \A f \in S : h[f] \in ParamValues(f) } } :
            S \in { T \in SUBSET FieldSet : Cardinality(T) <= MaxSetParams } }

(* ---------------------------- _build_request -------------------------- *)

\* lines 238-244: each message reduced to {role, content}
MessageDict(msg) ==
    [role |-> msg.role,
     content |-> IF msg.has_text THEN msg.text ELSE msg.content]

Messages(input) == [i \in DOMAIN input |-> MessageDict(input[i])]

\* lines 253-263
ToolDict(tool) ==
    [type |-> "function",
     function |-> [name |-> tool.name, description |-> tool.description,
                   parameters |-> tool.parameters]]

AddTools(request, tools) ==
    IF tools # << >>
    THEN DictSet(request, "tools", [i \in DOMAIN tools |-> ToolDict(tools[i])])
    ELSE request

\* lines 266-270: only a str or a dict tool_choice is copied
AddToolChoice(request, tool_choice) ==
    IF ~IsNone(tool_choice)
    THEN IF tool_choice.type = "str"
         THEN DictSet(request, "tool_choice", tool_choice)
         ELSE IF tool_choice.type = "dict"
              THEN DictSet(request, "tool_choice", tool_choice)
              ELSE request
    ELSE request

\* "if config.x:" in place of "if config.x is not None:"
AddParamIfTruthy(request, key, value) ==
    IF Truthy(value) THEN DictSet(request, key, value) ELSE request

\* lines 273-284: one generation parameter
AddParam(request, key, value) ==
    IF ~IsNone(value) THEN DictSet(request, key, value) ELSE request

RECURSIVE AddParams(_, _, _)
AddParams(request, config, i) ==
    IF i > Len(ParamFields)
    THEN request
    ELSE AddParams(AddParam(request, ParamKey(ParamFields[i]), config[ParamFields[i]]),
                   config, i + 1)

\* the extras applied first, the structured fields written over them
MergeExtrasFirst(request, model_args) == DictUpdate(model_args, request)

\* line 287: request.update(self.model_args)
MergeExtras(request, model_args) == DictUpdate(request, model_args)

\* lines 246-284: the request before the extras are merged
StructuredRequest(a, input, tools, tool_choice, config) ==
    AddParams(
        AddToolChoice(
            AddTools([model |-> PyStr(a.model_name), messages |-> Messages(input)],
                     tools),
            tool_choice),
        config, 1)

BuildRequest(a, input, tools, tool_choice, config) ==
    MergeExtras(StructuredRequest(a, input, tools, tool_choice, config), a.model_args)

\* lines 220-227
BuildHeaders(a) ==
    IF Truthy(a.api_key)
    THEN [ContentType |-> "application/json",
          Authorization |-> "Bearer " \o a.api_key.repr]
    ELSE [ContentType |-> "application/json"]

(* ------------------------------ JSON values --------------------------- *)

JNull == [t |-> "null", v |-> << >>]

JObj(fields) == [t |-> "object", v |-> fields]

JArr(items) == [t |-> "array", v |-> [items |-> items]]

JInt(i) == [t |-> "int", v |-> [int |-> i]]

JStr(str) == [t |-> "str", v |-> [str |-> str]]

\* dict.get(key, default) on a JSON object
Get(obj, key, default) == IF key \in DOMAIN obj.v THEN obj.v[key] ELSE default

\* truthiness of a JSON value ("if usage_data:")
JTruthy(j) ==
    CASE j.t = "null" -> FALSE
      [] j.t = "object" -> DOMAIN j.v # {}
      [] j.t = "array" -> Len(j.v.items) > 0
      [] j.t = "int" -> j.v.int # 0
      [] j.t = "str" -> j.v.str # ""

(* ------------------------------ exceptions ---------------------------- *)

\* an exception object: its class, str(ex), and for httpx.HTTPStatusError the
\* response's status code and text
Exc(cls, msg, status_code, text) ==
    [cls |-> cls, msg |-> msg, status_code |-> status_code, text |-> text]

NoExc == Exc("none", "", 0, "")

\* httpx.RequestError and its subclasses (transport errors, timeouts,
\* decoding errors, too many redirects)
RequestErrorClasses ==
    {"RequestError", "ConnectError", "ReadTimeout", "ConnectTimeout",
     "DecodingError", "TooManyRedirects"}

\* subclasses of Exception that are neither of the httpx classes above
OtherExceptionClasses ==
    {"RuntimeError", "TypeError", "AttributeError", "JSONDecodeError", "ValueError"}

\* BaseException but not Exception
BaseOnlyClasses == {"CancelledError"}

IsHTTPStatusError(ex) == ex.cls = "HTTPStatusError"

IsRequestError(ex) == ex.cls \in RequestErrorClasses

IsException(ex) ==
    ex.cls \in {"HTTPStatusError"} \cup RequestErrorClasses \cup OtherExceptionClasses

(* ------------------------- should_retry / is_auth_failure ------------- *)

\* retries server errors only, forgetting the rate limit
ShouldRetryNo429(ex) ==
    IF IsHTTPStatusError(ex)
    THEN ex.status_code >= 500
    ELSE IF IsRequestError(ex) THEN TRUE ELSE FALSE

\* lines 357-365
ShouldRetry(ex) ==
    IF IsHTTPStatusError(ex)
    THEN ex.status_code = 429 \/ ex.status_code >= 500
    ELSE IF IsRequestError(ex) THEN TRUE ELSE FALSE

\* treats 403 as an authentication failure too
IsAuthFailure401Or403(ex) ==
    IF IsHTTPStatusError(ex) THEN ex.status_code \in {401, 403} ELSE FALSE

\* lines 368-372
IsAuthFailure(ex) ==
    IF IsHTTPStatusError(ex) THEN ex.status_code = 401 ELSE FALSE

(* ------------------------------ ModelOutput --------------------------- *)

\* as_stop_reason: the host framework's normalisation of a finish reason
AsStopReason(reason) ==
    CASE reason \in {"stop", "eos"} -> "stop"
      [] reason = "length" -> "max_tokens"
      [] reason \in {"tool_calls", "function_call"} -> "tool_calls"
      [] reason \in {"content_filter", "model_length", "max_tokens"} -> reason
      [] OTHER -> "unknown"

\* line 352-354
MapFinishReason(reason) == AsStopReason(reason)

\* ModelOutput.from_content(model, content, stop_reason, error): one choice
\* holding an assistant message with the content
FromContent(model, content, stop_reason, error) ==
    [model |-> model,
     choices |-> << [message |-> [content |-> content, model |-> model,
                                  source |-> "generate", tool_calls |-> << >>],
                     stop_reason |-> stop_reason] >>,
     usage |-> PyNone,
     error |-> error]

\* ModelCall.create(request, response)
ModelCallCreate(request, response) == [request |-> request, response |-> response]

(* ---------------------------- _parse_response ------------------------- *)

\* lines 312-321: one entry of message.tool_calls
ParseToolCall(tc) ==
    LET function_data == Get(tc, "function", JObj(<< >>))
    IN  [id |-> Get(tc, "id", JStr("")).v.str,
         function |-> Get(function_data, "name", JStr("")).v.str,
         arguments |-> Get(function_data, "arguments", JObj(<< >>)),
         type |-> Get(tc, "type", JStr("function")).v.str]

\* lines 295-334: one entry of choices
ParseChoice(a, response, choice_data) ==
    LET message_data == Get(choice_data, "message", JObj(<< >>))
        content == Get(message_data, "content", JStr(""))
        finish_reason == Get(choice_data, "finish_reason", JStr("stop"))
        tool_calls_data == Get(message_data, "tool_calls", JArr(<< >>))
    IN  [message |->
           [content |-> content.v.str,
            model |-> Get(response, "model", JStr(a.model_name)).v.str,
            source |-> "generate",
            tool_calls |->
               IF JTruthy(tool_calls_data)
               THEN [i \in DOMAIN tool_calls_data.v.items |->
                        ParseToolCall(tool_calls_data.v.items[i])]
               ELSE << >>],
         stop_reason |-> MapFinishReason(finish_reason.v.str)]

\* input and output token counts exchanged
UsageSwapped(usage_data) ==
    [type |-> "ModelUsage",
     input_tokens |-> Get(usage_data, "completion_tokens", JInt(0)).v.int,
     output_tokens |-> Get(usage_data, "prompt_tokens", JInt(0)).v.int,
     total_tokens |-> Get(usage_data, "total_tokens", JInt(0)).v.int]

\* lines 340-344
UsageFrom(usage_data) ==
    [type |-> "ModelUsage",
     input_tokens |-> Get(usage_data, "prompt_tokens", JInt(0)).v.int,
     output_tokens |-> Get(usage_data, "completion_tokens", JInt(0)).v.int,
     total_tokens |-> Get(usage_data, "total_tokens", JInt(0)).v.int]

\* lines 337-344
ParseUsage(response) ==
    LET usage_data == Get(response, "usage", JNull)
    IN  IF JTruthy(usage_data) THEN UsageFrom(usage_data) ELSE PyNone

\* the exception _parse_response raises on this body, NoExc when it maps:
\* .get on a value that is not a dict, or iteration over null
ParseRaises(response) ==
    IF response.t # "object"
    THEN Exc("AttributeError", "'list' object has no attribute 'get'", 0, "")
    ELSE LET choices == Get(response, "choices", JArr(<< >>))
         IN  IF choices.t # "array"
             THEN Exc("TypeError", "'NoneType' object is not iterable", 0, "")
             ELSE IF \E i \in DOMAIN choices.v.items :
                        \/ choices.v.items[i].t # "object"
                        \/ Get(choices.v.items[i], "message", JObj(<< >>)).t # "object"
                  THEN Exc("AttributeError",
                           "'NoneType' object has no attribute 'get'", 0, "")
                  ELSE LET usage_data == Get(response, "usage", JNull)
                       IN  IF JTruthy(usage_data) /\ usage_data.t # "object"
                           THEN Exc("AttributeError",
                                    "'int' object has no attribute 'get'", 0, "")
                           ELSE NoExc

\* lines 291-350, for a body on which ParseRaises is NoExc
ParseResponse(a, response) ==
    LET choices == Get(response, "choices", JArr(<< >>))
    IN  [model |-> Get(response, "model", JStr(a.model_name)).v.str,
         choices |-> [i \in DOMAIN choices.v.items |->
                        ParseChoice(a, response, choices.v.items[i])],
         usage |-> ParseUsage(response),
         error |-> PyNone]

(* ------------------------- outcomes of the HTTP POST ------------------ *)

\* response.json(): the parsed body, or a failure to parse
Unparsed == [parses |-> FALSE, value |-> JNull]

Parsed(value) == [parses |-> TRUE, value |-> value]

Raised(ex) ==
    [kind |-> "raise", ex |-> ex, status_code |-> 0, text |-> "", body |-> Unparsed]

Response(status_code, text, body) ==
    [kind |-> "response", ex |-> NoExc, status_code |-> status_code,
     text |-> text, body |-> body]

FullUsage ==
    JObj([prompt_tokens |-> JInt(10), completion_tokens |-> JInt(20),
          total_tokens |-> JInt(30)])

OkChoice ==
    JObj([index |-> JInt(0),
          message |-> JObj([role |-> JStr("assistant"), content |-> JStr("hi")]),
          finish_reason |-> JStr("length")])

ToolChoiceChoice ==
    JObj([message |-> JObj([content |-> JStr(""),
                            tool_calls |-> JArr(<< JObj([function |->
                                JObj([name |-> JStr("get_weather")])]) >>)]),
          finish_reason |-> JStr("tool_calls")])

Bodies ==
    { Unparsed,
      Parsed(JArr(<< JStr("oops") >>)),
      Parsed(JObj(<< >>)),
      Parsed(JObj([choices |-> JNull])),
      Parsed(JObj([choices |-> JArr(<< JObj([message |-> JNull]) >>),
                   usage |-> FullUsage])),
      Parsed(JObj([id |-> JStr("r1"), model |-> JStr("served"),
                   choices |-> JArr(<< OkChoice >>), usage |-> FullUsage])),
      Parsed(JObj([choices |-> JArr(<< JObj([message |-> JObj([content |-> JStr("yo")])]) >>)])),
      Parsed(JObj([choices |-> JArr(<< OkChoice >>), usage |-> JNull])),
      Parsed(JObj([choices |-> JArr(<< OkChoice >>), usage |-> JObj(<< >>)])),
      Parsed(JObj([choices |-> JArr(<< OkChoice >>),
                   usage |-> JObj([prompt_tokens |-> JInt(5)])])),
      Parsed(JObj([choices |-> JArr(<< ToolChoiceChoice >>),
                   usage |-> JObj([prompt_tokens |-> JInt(0),
                                   completion_tokens |-> JInt(0),
                                   total_tokens |-> JInt(0)])])) }

ErrorStatuses == {302, 400, 401, 403, 404, 429, 500, 503, 600}

\* what the awaited POST can produce: an exception out of the client, or a
\* response with a status, a text and a body
Outcomes ==
    { Raised(Exc("ConnectError", "All connection attempts failed", 0, "")),
      Raised(Exc("ReadTimeout", "timed out", 0, "")),
      Raised(Exc("RuntimeError", "client has been closed", 0, "")),
      Raised(Exc("CancelledError", "", 0, "")) }
    \cup { Response(200, "{..}", b) : b \in Bodies }
    \cup { Response(201, "{..}", b) : b \in {Unparsed, Parsed(JObj(<< >>))} }
    \cup { Response(st, "busy", Unparsed) : st \in ErrorStatuses }
    \cup { Response(503, "", Parsed(JObj(<< >>))) }

\* the exceptions the host may hand to should_retry / is_auth_failure
Exceptions ==
    { Exc("HTTPStatusError", "status error", st, "busy") : st \in ErrorStatuses }
    \cup { Exc(cls, "failed", 0, "") :
             cls \in RequestErrorClasses \cup OtherExceptionClasses \cup BaseOnlyClasses }

(* ------------------------------- generate ----------------------------- *)

\* local variables stored on the adapter instead of in the coroutine's frame
SharedFrame(c) == 1

\* lines 157-166: request_payload and response_data are locals of the
\* coroutine, one frame per generate call
Frame(c) == c

IdleCall ==
    [pc |-> "idle", input |-> << >>, tools |-> << >>, tool_choice |-> PyNone,
     config |-> PyNone, request_payload |-> EmptyDict,
     response_data |-> JObj(<< >>), sent |-> << >>, received |-> Raised(NoExc),
     result |-> PyNone]

\* line 176: response.raise_for_status()
RaiseForStatus(o) ==
    IF o.status_code \div 100 = 2
    THEN NoExc
    ELSE Exc("HTTPStatusError", "status error", o.status_code, o.text)

\* line 177: response.json()
JsonRaises(o) ==
    IF o.body.parses THEN NoExc ELSE Exc("JSONDecodeError", "Expecting value", 0, "")

\* lines 168-181: the try block after the POST has completed with outcome o.
\* exc is what it raises (NoExc when it returns), response_data is the local
\* after the block (assigned only when json() returned)
TryBlock(a, o, response_data) ==
    IF o.kind = "raise"
    THEN [exc |-> o.ex, response_data |-> response_data, output |-> PyNone]
    ELSE IF RaiseForStatus(o) # NoExc
    THEN [exc |-> RaiseForStatus(o), response_data |-> response_data, output |-> PyNone]
    ELSE IF JsonRaises(o) # NoExc
    THEN [exc |-> JsonRaises(o), response_data |-> response_data, output |-> PyNone]
    ELSE IF ParseRaises(o.body.value) # NoExc
    THEN [exc |-> ParseRaises(o.body.value), response_data |-> o.body.value,
          output |-> PyNone]
    ELSE [exc |-> NoExc, response_data |-> o.body.value,
          output |-> ParseResponse(a, o.body.value)]

\* lines 184, 196, 208: the error message of each except clause
ErrorMessage(ex) ==
    IF IsHTTPStatusError(ex)
    THEN "HTTP error " \o ToString(ex.status_code) \o ": " \o ex.text
    ELSE IF IsRequestError(ex)
    THEN "Request error: " \o ex.msg
    ELSE "Unexpected error: " \o ex.msg

\* the output keeps from_content's default stop reason
ErrorOutputDefaultStop(a, ex) ==
    FromContent(a.model_name, ErrorMessage(ex), "stop", PyStr(ErrorMessage(ex)))

\* lines 187-192, 199-204, 211-216
ErrorOutput(a, ex) ==
    FromContent(a.model_name, ErrorMessage(ex), "unknown", PyStr(ErrorMessage(ex)))

\* only the two httpx clauses, without the final "except Exception"
CaughtHttpxOnly(ex) == IsHTTPStatusError(ex) \/ IsRequestError(ex)

\* lines 183, 195, 207: the except clauses catch every Exception
Caught(ex) == IsException(ex)

\* lines 168-218: what generate returns (or raises) once the POST completed
Finish(a, o, request_payload, response_data) ==
    LET t == TryBlock(a, o, response_data)
    IN  IF t.exc = NoExc
        THEN [raised |-> FALSE, exc |-> NoExc, output |-> t.output,
              call |-> ModelCallCreate(request_payload, t.response_data)]
        ELSE IF Caught(t.exc)
        THEN [raised |-> FALSE, exc |-> NoExc, output |-> ErrorOutput(a, t.exc),
              call |-> ModelCallCreate(request_payload, t.response_data)]
        ELSE [raised |-> TRUE, exc |-> t.exc, output |-> PyNone, call |-> PyNone]

\* lines 156-175: build the request and the headers, issue the POST, suspend
GenerateStart(c, input, tools, tool_choice, config) ==
    /\ self.state = "ready"
    /\ calls[c].pc = "idle"
    /\ LET request_payload == BuildRequest(self, input, tools, tool_choice, config)
       IN  calls' =
             [calls EXCEPT
                ![c].pc = "await",
                ![c].input = input,
                ![c].tools = tools,
                ![c].tool_choice = tool_choice,
                ![c].config = config,
                ![c].sent = << [path |-> "/v1/chat/completions",
                                json |-> request_payload,
                                headers |-> BuildHeaders(self)] >>,
                ![Frame(c)].request_payload = request_payload,
                ![Frame(c)].response_data = JObj(<< >>)]
    /\ UNCHANGED <<self, verdict>>

\* a retry loop inside generate: a retryable failure is POSTed once more
PostsAfterRetry(a, o, sent) ==
    IF ShouldRetry(TryBlock(a, o, JObj(<< >>)).exc)
    THEN Append(sent, sent[1])
    ELSE sent

\* lines 176-218: the POSTs the invocation has issued when it returns.  No
\* statement after the await at line 171 calls the client again: the try
\* block and each except clause run straight to a return
PostsAfter(a, o, sent) == sent

\* lines 171-218: the POST completes with outcome o and generate runs to its
\* return (or raises)
GenerateResume(c, o) ==
    /\ calls[c].pc = "await"
    /\ LET frame == calls[Frame(c)]
           t == TryBlock(self, o, frame.response_data)
       IN  calls' =
             [calls EXCEPT
                ![c].pc = "done",
                ![c].received = o,
                ![c].sent = PostsAfter(self, o, calls[c].sent),
                ![c].result = Finish(self, o, frame.request_payload,
                                     frame.response_data),
                ![Frame(c)].response_data = t.response_data]
    /\ UNCHANGED <<self, verdict>>

\* the host takes the result; the coroutine and its frame are gone
Return(c) ==
    /\ calls[c].pc = "done"
    /\ calls' = [calls EXCEPT ![c] = IdleCall]
    /\ UNCHANGED <<self, verdict>>

\* the host's retry loop asks should_retry(ex)
CallShouldRetry(ex) ==
    /\ self.state = "ready"
    /\ verdict' = [fn |-> "should_retry", ex |-> ex, result |-> ShouldRetry(ex)]
    /\ UNCHANGED <<self, calls>>

\* the host asks is_auth_failure(ex)
CallIsAuthFailure(ex) ==
    /\ self.state = "ready"
    /\ verdict' = [fn |-> "is_auth_failure", ex |-> ex, result |-> IsAuthFailure(ex)]
    /\ UNCHANGED <<self, calls>>

NoVerdict == [fn |-> "none", ex |-> NoExc, result |-> FALSE]

\* the host has acted on the predicate's answer
TakeVerdict ==
    /\ verdict # NoVerdict
    /\ verdict' = NoVerdict
    /\ UNCHANGED <<self, calls>>

(* ---------------------------- specifications -------------------------- *)

Init ==
    /\ self = NoAdapter
    /\ calls = [c \in Calls |-> IdleCall]
    /\ verdict = NoVerdict

NoConfig == [f \in FieldSet |-> PyNone]

FirstInput == CHOOSE i \in Inputs : Len(i) = 1

\* the arguments of a generate call: every tools / tool_choice / config
\* combination on one input, and every input with nothing else set
Requests ==
    [input : {FirstInput}, tools : ToolLists, tool_choice : ToolChoices,
     config : Configs]
    \cup
    [input : Inputs, tools : ToolLists, tool_choice : {PyNone}, config : {NoConfig}]

\* the host awaits each generate call before it makes the next one
Next ==
    \/ \E a \in CtorArgs, e \in Envs : Construct(a, e)
    \/ \E r \in Requests :
          /\ verdict = NoVerdict
          /\ GenerateStart(1, r.input, r.tools, r.tool_choice, r.config)
    \/ \E o \in Outcomes : GenerateResume(1, o)
    \/ Return(1)
    \/ \E ex \in Exceptions : calls[1].pc = "idle" /\ CallShouldRetry(ex)
    \/ \E ex \in Exceptions : calls[1].pc = "idle" /\ CallIsAuthFailure(ex)
    \/ TakeVerdict

Spec == Init /\ [][Next]_vars

\* inputs of the concurrent host: few requests and outcomes, every call slot
ConcCtorArgs ==
    [base_url : {PyStr("http://arg")}, api_key : {PyStr("arg-key")},
     timeout : {PyFloat("60.0")},
     model_args : {EmptyDict, [custom |-> PyStr("x")]}]

ConcRequests ==
    { [input |-> i, config |-> NoConfig] : i \in Inputs }
    \cup { [input |-> i, config |-> [NoConfig EXCEPT !["seed"] = PyInt("42")]] :
             i \in { j \in Inputs : Len(j) = 1 } }

ConcExceptions ==
    { Exc("HTTPStatusError", "status error", 429, "busy"),
      Exc("HTTPStatusError", "status error", 401, "busy"),
      Exc("ReadTimeout", "timed out", 0, "") }

ConcOutcomes ==
    { Raised(Exc("ReadTimeout", "timed out", 0, "")),
      Response(503, "busy", Unparsed),
      Response(200, "{..}", Parsed(JObj([choices |-> JNull]))),
      Response(200, "{..}", Parsed(JObj([choices |-> JArr(<< OkChoice >>),
                                         usage |-> FullUsage]))) }

\* the host runs up to MaxCalls generate calls at once on the one adapter
NextConc ==
    \/ \E a \in ConcCtorArgs, e \in Envs : Construct(a, e)
    \/ \E c \in Calls, r \in ConcRequests :
          GenerateStart(c, r.input, << >>, PyNone, r.config)
    \/ \E c \in Calls, o \in ConcOutcomes : GenerateResume(c, o)
    \/ \E c \in Calls : Return(c)
    \/ \E ex \in ConcExceptions : CallShouldRetry(ex)
    \/ \E ex \in ConcExceptions : CallIsAuthFailure(ex)
    \/ TakeVerdict

SpecConc == Init /\ [][NextConc]_vars

(* ------------------------------- claims ------------------------------- *)

\* the request body the call put on the wire
Body(c) == calls[c].sent[1].json

Content(output) == output.choices[1].message.content

StartsWith(str, prefix) ==
    Len(str) >= Len(prefix) /\ SubSeq(str, 1, Len(prefix)) = prefix

IsErrorStatus(o) == o.kind = "response" /\ ~(o.status_code \in 200 .. 299)

IsTransportError(o) == o.kind = "raise" /\ o.ex.cls \in RequestErrorClasses

\* a body that cannot be mapped: not an object, choices that is no list, or
\* a choice whose message is no object
Unmappable(value) ==
    \/ value.t # "object"
    \/ /\ "choices" \in DOMAIN value.v
       /\ \/ value.v.choices.t # "array"
          \/ \E i \in DOMAIN value.v.choices.v.items :
                /\ "message" \in DOMAIN value.v.choices.v.items[i].v
                /\ value.v.choices.v.items[i].v.message.t # "object"

IsOtherFailure(o) ==
    \/ o.kind = "raise" /\ o.ex.cls \in OtherExceptionClasses
    \/ /\ o.kind = "response"
       /\ o.status_code \in 200 .. 299
       /\ (~o.body.parses \/ Unmappable(o.body.value))

\* a provider-side failure of the POST: error status, transport error, or
\* any other failure such as a body that cannot be parsed or mapped
ProviderFailure(o) == IsErrorStatus(o) \/ IsTransportError(o) \/ IsOtherFailure(o)

\* C1: for every provider-side failure of the POST, generate does not raise:
\* it returns a (ModelOutput, ModelCall) pair whose ModelOutput has the error
\* field set.
C1_GenerateNeverRaises ==
    \A c \in Calls :
        (calls[c].pc = "done" /\ ProviderFailure(calls[c].received)) =>
            /\ ~calls[c].result.raised
            /\ calls[c].result.output.error.type = "str"
            /\ calls[c].result.call.request = Body(c)

\* a 200 response whose body parsed but could not be mapped came back as an
\* error output
C1_Witness ==
    \E c \in Calls :
        /\ calls[c].pc = "done"
        /\ calls[c].received.kind = "response"
        /\ calls[c].received.status_code = 200
        /\ calls[c].received.body.parses
        /\ Unmappable(calls[c].received.body.value)
        /\ ~calls[c].result.raised
        /\ calls[c].result.output.error.type = "str"

\* the content the claim gives for each kind of failure
ContentMatchesFailure(o, content) ==
    /\ IsErrorStatus(o) =>
          content = "HTTP error " \o ToString(o.status_code) \o ": " \o o.text
    /\ (IsErrorStatus(o) /\ o.status_code = 503) =>
          StartsWith(content, "HTTP error 503:")
    /\ IsTransportError(o) => content = "Request error: " \o o.ex.msg
    /\ IsOtherFailure(o) => StartsWith(content, "Unexpected error: ")
    /\ (IsOtherFailure(o) /\ o.kind = "raise") =>
          content = "Unexpected error: " \o o.ex.msg

ErrorOutputShape(c) ==
    /\ ~calls[c].result.raised
    /\ Len(calls[c].result.output.choices) = 1
    /\ ContentMatchesFailure(calls[c].received, Content(calls[c].result.output))
    /\ calls[c].result.output.choices[1].stop_reason = "unknown"
    /\ calls[c].result.output.error = PyStr(Content(calls[c].result.output))
    /\ calls[c].result.call.request = Body(c)

\* C2 as stated: every failed generate call returns the content of its kind
\* of failure, stop reason "unknown", error equal to the content, and a
\* ModelCall with the outgoing request and an empty response.
C2_Original ==
    \A c \in Calls :
        (calls[c].pc = "done" /\ ProviderFailure(calls[c].received)) =>
            /\ ErrorOutputShape(c)
            /\ calls[c].result.call.response = JObj(<< >>)

\* C2 amended: as stated, but the ModelCall's response is empty only when
\* the failure came before the body was parsed; when a non-error response's
\* body parsed and the failure came while mapping it, the ModelCall carries
\* the parsed body.
C2_ErrorOutput ==
    \A c \in Calls :
        (calls[c].pc = "done" /\ ProviderFailure(calls[c].received)) =>
            /\ ErrorOutputShape(c)
            /\ calls[c].result.call.response =
                  IF /\ calls[c].received.kind = "response"
                     /\ ~IsErrorStatus(calls[c].received)
                     /\ calls[c].received.body.parses
                  THEN calls[c].received.body.value
                  ELSE JObj(<< >>)

\* a 503 came back as "HTTP error 503: busy" with an empty response recorded
C2_Witness ==
    \E c \in Calls :
        /\ calls[c].pc = "done"
        /\ calls[c].received.kind = "response"
        /\ calls[c].received.status_code = 503
        /\ ~calls[c].result.raised
        /\ Content(calls[c].result.output) = "HTTP error 503: busy"
        /\ calls[c].result.call.response = JObj(<< >>)

C4_IsAuthFailure ==
    verdict.fn = "is_auth_failure" =>
        (verdict.result <=>
            (verdict.ex.cls = "HTTPStatusError" /\ verdict.ex.status_code = 401))

\* is_auth_failure answered true for a 401
C4_Witness ==
    /\ verdict.fn = "is_auth_failure"
    /\ verdict.ex.cls = "HTTPStatusError"
    /\ verdict.ex.status_code = 401
    /\ verdict.result

\* C5 as stated: for every request body and each generation parameter, an
\* unset parameter's key is absent and a set parameter's key holds exactly
\* the config's value.
C5_Original ==
    \A c \in Calls :
        calls[c].pc # "idle" =>
            \A f \in FieldSet :
                IF IsNone(calls[c].config[f])
                THEN ParamKey(f) \notin DOMAIN Body(c)
                ELSE /\ ParamKey(f) \in DOMAIN Body(c)
                     /\ Body(c)[ParamKey(f)] = calls[c].config[f]

\* C5 amended: the same, for each generation parameter whose key is not a
\* key of the adapter's extra arguments (an extra argument under that key
\* replaces the parameter, set or unset).
C5_GenerationParams ==
    \A c \in Calls :
        calls[c].pc # "idle" =>
            \A f \in FieldSet :
                ParamKey(f) \notin DOMAIN self.model_args =>
                    IF IsNone(calls[c].config[f])
                    THEN ParamKey(f) \notin DOMAIN Body(c)
                    ELSE /\ ParamKey(f) \in DOMAIN Body(c)
                         /\ Body(c)[ParamKey(f)] = calls[c].config[f]

\* a request with temperature 0.0 and no other parameter set carries
\* temperature 0.0 and none of the other five keys
C5_Witness ==
    \E c \in Calls :
        /\ calls[c].pc # "idle"
        /\ self.model_args = [custom |-> PyStr("x")]
        /\ calls[c].config = [NoConfig EXCEPT !["temperature"] = PyFloat("0.0")]
        /\ Body(c)["temperature"] = PyFloat("0.0")
        /\ (DOMAIN Body(c)) \cap ParamKeys = {"temperature"}

\* C6: the request body contains the key tool_choice if and only if the
\* tool_choice argument is not null, and then its value is the argument
\* unchanged, for a string policy and for a structured selector alike.
C6_ToolChoicePassedThrough ==
    \A c \in Calls :
        calls[c].pc # "idle" =>
            /\ ("tool_choice" \in DOMAIN Body(c)) <=> ~IsNone(calls[c].tool_choice)
            /\ ~IsNone(calls[c].tool_choice) =>
                  Body(c)["tool_choice"] = calls[c].tool_choice

C7_Merged(c) ==
    LET structured == StructuredRequest(self, calls[c].input, calls[c].tools,
                                        calls[c].tool_choice, calls[c].config)
    IN  /\ DOMAIN Body(c) = (DOMAIN structured) \cup (DOMAIN self.model_args)
        /\ \A k \in DOMAIN self.model_args : Body(c)[k] = self.model_args[k]
        /\ \A k \in (DOMAIN structured) \ (DOMAIN self.model_args) :
              Body(c)[k] = structured[k]

\* C7: every request body holds the extras' value under every key of the
\* extras (also on collision with a structured field), every other key keeps
\* its structured value, and no step changes the stored extras.
C7_ExtrasMergedLast ==
    [][/\ \A c \in Calls : calls'[c].pc # "idle" => C7_Merged(c)'
       /\ self.state = "ready" => self'.model_args = self.model_args]_vars

\* extras {tool_choice, model, messages} replaced all three structured fields
\* of a request whose tool_choice argument was "auto"
C7_Witness ==
    \E c \in Calls :
        /\ calls[c].pc = "done"
        /\ calls[c].tool_choice = PyStr("auto")
        /\ "model" \in DOMAIN self.model_args
        /\ Body(c)["model"] = PyStr("other")
        /\ Body(c)["tool_choice"] = PyStr("none")
        /\ Body(c)["messages"] = PyList("[]")

\* a base URL was given: a non-empty string
Given(v) == v.type = "str" /\ v.repr # ""

\* C8: the constructor takes the base URL from the base_url parameter when
\* given, else from MOCKREST_BASE_URL; when neither gives one it raises
\* ValueError with no HTTP client created, and no generate call runs on an
\* adapter that was not constructed; a missing API key raises nothing.
C8_Constructor ==
    [][/\ \A a \in CtorArgs, e \in Envs :
             Construct(a, e) =>
                 IF Given(a.base_url)
                 THEN self'.state = "ready" /\ self'.base_url = a.base_url
                 ELSE IF Given(e.MOCKREST_BASE_URL)
                 THEN self'.state = "ready" /\ self'.base_url = e.MOCKREST_BASE_URL
                 ELSE self'.state = "ValueError"
       /\ self'.state = "ValueError" => self'.client = "none"
       /\ \A c \in Calls : calls'[c].pc # "idle" => self'.state = "ready"]_vars

\* the constructor raised ValueError and no client exists
C8_Witness ==
    /\ self.state = "ValueError"
    /\ self.client = "none"
    /\ \A c \in Calls : calls[c].pc = "idle"

\* C9: with generate calls interleaved at the HTTP await, each finished call
\* holds the output and the ModelCall built from its own request payload and
\* its own HTTP outcome, and no step changes the constructed adapter's
\* configuration.
C9_CallsIndependent ==
    [][/\ \A c \in Calls :
             calls'[c].pc = "done" =>
                 calls'[c].result =
                     Finish(self, calls'[c].received, calls'[c].sent[1].json,
                            JObj(<< >>))
       /\ self.state = "ready" => self' = self]_vars

\* two calls with different requests overlapped and finished with different
\* outcomes
C9_Witness ==
    /\ calls[1].pc = "done"
    /\ calls[2].pc = "done"
    /\ Body(1) # Body(2)
    /\ calls[1].received.kind = "raise"
    /\ calls[2].received.kind = "response"
    /\ calls[1].result.call.request = Body(1)
    /\ calls[2].result.call.request = Body(2)
    /\ calls[2].result.output.usage # PyNone

IsSuccessResponse(o) ==
    o.kind = "response" /\ o.status_code \in 200 .. 299 /\ o.body.parses
    /\ o.body.value.t = "object"

UsageKeys == {"prompt_tokens", "completion_tokens", "total_tokens"}

UsageField(key) ==
    CASE key = "prompt_tokens" -> "input_tokens"
      [] key = "completion_tokens" -> "output_tokens"
      [] key = "total_tokens" -> "total_tokens"

\* C10 as stated: a non-error response that carries a usage object gives a
\* ModelOutput with usage set from prompt_tokens / completion_tokens /
\* total_tokens; a response without usage gives no usage.
C10_Original ==
    \A c \in Calls :
        (calls[c].pc = "done" /\ IsSuccessResponse(calls[c].received)) =>
            LET body == calls[c].received.body.value.v
                out == calls[c].result.output
            IN  IF "usage" \in DOMAIN body /\ body.usage.t = "object"
                THEN /\ out.usage.type = "ModelUsage"
                     /\ \A k \in UsageKeys \cap DOMAIN body.usage.v :
                           out.usage[UsageField(k)] = body.usage.v[k].v.int
                ELSE "usage" \notin DOMAIN body => out.usage = PyNone

\* C10 amended: for a non-error response whose body was parsed and mapped
\* without failure: a non-empty usage object gives usage with each count
\* taken from the response's field, 0 where the field is missing; a missing,
\* null or empty usage gives no usage.
C10_UsageMapped ==
    \A c \in Calls :
        (/\ calls[c].pc = "done"
         /\ IsSuccessResponse(calls[c].received)
         /\ ~calls[c].result.raised
         /\ calls[c].result.output.error = PyNone) =>
            LET body == calls[c].received.body.value.v
                out == calls[c].result.output
            IN  IF /\ "usage" \in DOMAIN body
                   /\ body.usage.t = "object"
                   /\ DOMAIN body.usage.v # {}
                THEN /\ out.usage.type = "ModelUsage"
                     /\ \A k \in UsageKeys :
                           out.usage[UsageField(k)] =
                              IF k \in DOMAIN body.usage.v
                              THEN body.usage.v[k].v.int
                              ELSE 0
                ELSE out.usage = PyNone

\* usage {10, 20, 30} came back as (10, 20, 30)
C10_Witness ==
    \E c \in Calls :
        /\ calls[c].pc = "done"
        /\ IsSuccessResponse(calls[c].received)
        /\ "usage" \in DOMAIN calls[c].received.body.value.v
        /\ calls[c].received.body.value.v.usage = FullUsage
        /\ calls[c].result.output.error = PyNone
        /\ calls[c].result.output.usage =
              [type |-> "ModelUsage", input_tokens |-> 10, output_tokens |-> 20,
               total_tokens |-> 30]

\* C11: the adapter never retries internally: a generate invocation that is
\* suspended or has returned has issued exactly one POST, to
\* /v1/chat/completions, whatever the outcome; the step that delivers the
\* outcome ends the invocation without a further POST; and should_retry and
\* is_auth_failure issue no request.
C11_SinglePost ==
    [][/\ \A c \in Calls :
             calls'[c].pc \in {"await", "done"} =>
                 /\ Len(calls'[c].sent) = 1
                 /\ calls'[c].sent[1].path = "/v1/chat/completions"
       /\ \A c \in Calls :
             (calls[c].pc = "await" /\ calls'[c] # calls[c]) =>
                 /\ calls'[c].pc = "done"
                 /\ calls'[c].sent = calls[c].sent
       /\ (\E ex \in Exceptions : CallShouldRetry(ex) \/ CallIsAuthFailure(ex)) =>
             \A c \in Calls : calls'[c].sent = calls[c].sent]_vars

\* a generate call that met a 429 returned its error output after one POST
C11_Witness ==
    \E c \in Calls :
        /\ calls[c].pc = "done"
        /\ calls[c].received.kind = "response"
        /\ calls[c].received.status_code = 429
        /\ ~calls[c].result.raised
        /\ calls[c].result.output.error.type = "str"
        /\ Len(calls[c].sent) = 1
        /\ calls[c].sent[1].path = "/v1/chat/completions"

====
